---- MODULE Spec2Model ----
(***************************************************************************)
(* Client-side utilities of the 5g-edge-platform dashboard:                *)
(*   PlatformUtils.debounce and StorageManager  (src/unnamed/part_000)     *)
(*   ChartManager                               (src/unnamed/part_001)     *)
(*   NotificationManager                        (src/notifications.js)     *)
(* The browser is single threaded: every handler below is one atomic step  *)
(* of the event loop.  setTimeout guarantees a minimum delay only, so a    *)
(* timer callback runs at or after its due time.                           *)
(***************************************************************************)
EXTENDS Integers, Sequences, FiniteSets, TLC

\* ------------------------------------------------------------------ bounds
MaxTime == 3          \* the clock runs 0..MaxTime
MaxCalls == 3         \* invocations of the debounced function
MaxWait == 2          \* debounce(func, wait) with wait in 0..MaxWait
MaxNodes == 2         \* notifications shown
MaxManagers == 1      \* NotificationManager instances constructed
MaxInstances == 2     \* instances constructed on one page, for the container count
MaxUnits == 2         \* multiples of a minute, an hour, a day around which elapsed times are drawn
MaxDur == 2           \* show(..., duration) with duration in 0..MaxDur
MaxInits == 2         \* successful initChart calls
Quota == 10           \* characters localStorage can hold

ArgSet == {"a", "b"}  \* the argument lists an invocation may carry

VARIABLES
    now,        \* the clock, in ticks
    timers,     \* the event loop's pending setTimeout callbacks
    nextId,     \* the next timer id setTimeout returns
    \* ---- PlatformUtils.debounce: one wrapped instance
    wait,       \* the wait argument of debounce(func, wait)
    timeout,    \* the closure's `let timeout` (0 = undefined)
    calls,      \* history: the invocations of executedFunction
    execs,      \* history: the executions of func
    \* ---- NotificationManager
    containers, \* document.body: per manager, its container's child nodes
    nodes,      \* every notification element show() has created
    \* ---- ChartManager
    dom,        \* the chart container ids present in the document
    engine,     \* echarts: the instance bound to each container (0 = none)
    nextChart,  \* the next fresh echarts instance
    applied,    \* per echarts instance, the option last given to setOption
    charts,     \* this.charts: the Map, as its entries in insertion order
    listeners,  \* window's resize listeners: the chart each one resizes
    resized,    \* the resize() calls the last step made, and what made them
    lastRet,    \* history: what the last initChart returned (0 = null)
    returned,   \* history: per id, the last chart an initChart returned
    logged,     \* console.error: the chart ids reported as missing
    \* ---- StorageManager over localStorage
    store,      \* localStorage: per key, the stored text if any
    available,  \* whether localStorage can be accessed
    sOp,        \* history: the last StorageManager call and its result
    \* ---- PlatformUtils.formatTime
    fOp         \* history: the last formatTime call and its result

tvars == <<now, timers, nextId>>
dvars == <<wait, timeout, calls, execs>>
nvars == <<containers, nodes>>
cvars == <<dom, engine, nextChart, applied, charts, listeners, resized,
           lastRet, returned, logged>>
svars == <<store, available, sOp>>
fvars == <<fOp>>
vars == <<tvars, dvars, nvars, cvars, svars, fvars>>

\* What each component's handlers leave alone.
offDebounce == <<nvars, cvars, svars, fvars>>
offNotify == <<dvars, cvars, svars, fvars>>
offChart == <<tvars, dvars, nvars, svars, fvars>>
offStore == <<tvars, dvars, nvars, cvars, fvars>>
offFormat == <<tvars, dvars, nvars, cvars, svars>>

\* ------------------------------------------------------- sequence helpers
Last(s) == s[Len(s)]

RECURSIVE Count(_, _)
Count(s, x) ==
    IF s = <<>> THEN 0
    ELSE (IF Head(s) = x THEN 1 ELSE 0) + Count(Tail(s), x)

\* ----------------------------------------------------- the timer service
NoArgs == "none"

\* A pending callback: `later` of debounce carries the invocation's args,
\* the auto-dismiss arrow function carries its notification node.
Timer(id, due, kind, args, node) ==
    [id |-> id, due |-> due, kind |-> kind, args |-> args, node |-> node]

setTimeout(ts, id, delay, kind, args, node) ==
    ts \cup {Timer(id, now + (IF delay > 0 THEN delay ELSE 0), kind, args, node)}

clearTimeout(ts, id) == {t \in ts : t.id # id}

\* Timers run in order of due time, then of creation.
Before(t, u) == t.due < u.due \/ (t.due = u.due /\ t.id < u.id)

\* Variant: any due timer may run, whatever its place in the queue.
NextDue_AnyDue(t) ==
    /\ t \in timers
    /\ t.due <= now

NextDue(t) ==
    /\ t \in timers
    /\ t.due <= now
    /\ \A u \in timers : u = t \/ Before(t, u)

\* ------------------------------------------------ PlatformUtils.debounce
\* Variant: `args` bound once, by the first invocation of the instance.
executedFunction_StaleArgs(a) ==
    /\ Len(calls) < MaxCalls
    /\ now + wait <= MaxTime
    /\ timers' = setTimeout(clearTimeout(timers, timeout), nextId, wait, "later",
                            IF calls = <<>> THEN a ELSE calls[1].args, 0)
    /\ timeout' = nextId
    /\ nextId' = nextId + 1
    /\ calls' = Append(calls, [id |-> nextId, time |-> now, args |-> a])
    /\ UNCHANGED <<now, wait, execs, offDebounce>>

\* Variant: the pending timer is not cleared before the new one is set.
executedFunction_NoClear(a) ==
    /\ Len(calls) < MaxCalls
    /\ now + wait <= MaxTime
    /\ timers' = setTimeout(timers, nextId, wait, "later", a, 0)
    /\ timeout' = nextId
    /\ nextId' = nextId + 1
    /\ calls' = Append(calls, [id |-> nextId, time |-> now, args |-> a])
    /\ UNCHANGED <<now, wait, execs, offDebounce>>

\* Variant: `later` is scheduled with no delay.
executedFunction_NoDelay(a) ==
    /\ Len(calls) < MaxCalls
    /\ now + wait <= MaxTime
    /\ timers' = setTimeout(clearTimeout(timers, timeout), nextId, 0,
                            "later", a, 0)
    /\ timeout' = nextId
    /\ nextId' = nextId + 1
    /\ calls' = Append(calls, [id |-> nextId, time |-> now, args |-> a])
    /\ UNCHANGED <<now, wait, execs, offDebounce>>

\* executedFunction(...args): cancel the pending timer, schedule `later`.
executedFunction(a) ==
    /\ Len(calls) < MaxCalls
    /\ now + wait <= MaxTime
    /\ timers' = setTimeout(clearTimeout(timers, timeout), nextId, wait,
                            "later", a, 0)
    /\ timeout' = nextId
    /\ nextId' = nextId + 1
    /\ calls' = Append(calls, [id |-> nextId, time |-> now, args |-> a])
    /\ UNCHANGED <<now, wait, execs, offDebounce>>

\* later(): clearTimeout(timeout); func(...args)
later(t) ==
    /\ timers' = clearTimeout(timers \ {t}, timeout)
    /\ execs' = Append(execs, [id |-> t.id, time |-> now, args |-> t.args,
                                seen |-> Len(calls)])
    /\ UNCHANGED <<now, nextId, wait, timeout, calls, offDebounce>>

DebounceInvoke == \E a \in ArgSet : executedFunction(a)

DebounceFire == \E t \in timers : NextDue(t) /\ t.kind = "later" /\ later(t)

Tick ==
    /\ now < MaxTime
    /\ now' = now + 1
    /\ UNCHANGED <<timers, nextId, dvars, nvars, cvars, svars, fvars>>

InitTimers == now = 0 /\ timers = {} /\ nextId = 1

\* No debounced instance in use.
IdleDebounce == wait = 0 /\ timeout = 0 /\ calls = <<>> /\ execs = <<>>

\* The page before any NotificationManager is constructed.
IdleNotify == containers = <<>> /\ nodes = <<>>

\* new ChartManager(): an empty Map; no chart container in the page yet.
ChartIds == {"c1", "c2"}

\* A step that calls no chart's resize().
NoResize == [by |-> "none", log |-> <<>>]

IdleChart ==
    /\ dom = {}
    /\ engine = [id \in ChartIds |-> 0]
    /\ nextChart = 1
    /\ applied = <<>>
    /\ charts = <<>>
    /\ listeners = <<>>
    /\ resized = NoResize
    /\ lastRet = 0
    /\ returned = [id \in ChartIds |-> 0]
    /\ logged = {}

\* ---------------------------------------------------------- JS values
JS(t, b, n, s, items) == [t |-> t, b |-> b, n |-> n, s |-> s, items |-> items]

Null == JS("null", FALSE, 0, <<>>, <<>>)
Undefined == JS("undefined", FALSE, 0, <<>>, <<>>)
Cyclic == JS("cyclic", FALSE, 0, <<>>, <<>>)   \* a self-referential object
Bool(b) == JS("boolean", b, 0, <<>>, <<>>)
Num(n) == JS("number", FALSE, n, <<>>, <<>>)
Str(s) == JS("string", FALSE, 0, s, <<>>)
Arr(items) == JS("array", FALSE, 0, <<>>, items)

Keys == {"k1", "k2"}

\* The JSON-serializable values stored, the falsy ones among them.
JsonValues ==
    { Null, Bool(FALSE), Bool(TRUE), Num(0), Num(-1), Num(10),
      Str(<<>>), Str(<<"a">>), Str(<<"\"", "\\">>),
      Arr(<<>>), Arr(<<Num(0), Str(<<"a">>)>>), Arr(<<Arr(<<Null>>)>>) }

JSValues == JsonValues \cup {Undefined, Cyclic}

Defaults == {Null, Num(7)}

NoItem == [has |-> FALSE, text |-> <<>>]
Item(text) == [has |-> TRUE, text |-> text]

\* Texts another script may have left under a key.
RawTexts == { <<>>, <<"{">>, <<"0", "1">> }

IdleStore ==
    /\ store = [k \in Keys |-> NoItem]
    /\ available = TRUE
    /\ sOp = [op |-> "none", key |-> "k1", arg |-> Null, ret |-> Null,
              threw |-> FALSE]

\* ---------------------------------------------- PlatformUtils.formatTime
Minute == 60000
Hour == 3600000
Day == 86400000

\* The `date` argument: null/undefined, or a timestamp in milliseconds.
NoDate == [isNull |-> TRUE, ts |-> 0]
At(ts) == [isNull |-> FALSE, ts |-> ts]

\* !date: null, undefined and the number 0 are falsy.
Falsy(date) == date.isNull \/ date.ts = 0

\* The returned string: a count (0 for none) followed by fixed words.
Text(count, words) == [count |-> count, words |-> words]

\* formatTime(date) read at wall-clock time `clock` (new Date()).
formatTime(date, clock) ==
    IF Falsy(date) THEN Text(0, "congwei gengxin")
    ELSE LET diff == clock - date.ts
         IN  IF diff < Minute THEN Text(0, "ganggang")
             ELSE IF diff < Hour THEN Text(diff \div Minute, "fenzhong qian")
             ELSE IF diff < Day THEN Text(diff \div Hour, "xiaoshi qian")
             ELSE Text(diff \div Day, "tian qian")

\* Elapsed times around the multiples of each unit, and timestamps.
Units == {Minute, Hour, Day}
Elapsed ==
    {-1, 0} \cup {k * u + e : k \in 1..MaxUnits, u \in Units, e \in {-1, 0, 1}}
Timestamps == {0, 1, 1000, Minute, Hour, Day}
Dates == {NoDate} \cup {At(ts) : ts \in Timestamps}

IdleFormat ==
    fOp = [op |-> "none", date |-> NoDate, clock |-> 0,
           ret |-> Text(0, "")]

FormatCall ==
    \E date \in Dates, d \in Elapsed :
        /\ date.ts + d > 0
        /\ fOp' = [op |-> "formatTime", date |-> date, clock |-> date.ts + d,
                   ret |-> formatTime(date, date.ts + d)]
        /\ UNCHANGED offFormat

InitFormat ==
    InitTimers /\ IdleDebounce /\ IdleNotify /\ IdleChart /\ IdleStore
    /\ IdleFormat

NextFormat == FormatCall

SpecFormat == InitFormat /\ [][NextFormat]_vars

\* formatTime: claims
\* C17: with d = now - timestamp, d < 60000 gives the just-now text, then
\* whole minutes below 3600000, whole hours below 86400000, whole days from
\* 86400000 on, each count rounded down; a null timestamp gives the
\* never-updated text.
C17_Buckets ==
    fOp.op = "formatTime" =>
        LET d == fOp.clock - fOp.date.ts
            count == fOp.ret.count
            words == fOp.ret.words
        IN  IF fOp.date.isNull THEN words = "congwei gengxin"
            ELSE /\ d < Minute => words = "ganggang"
                 /\ (Minute <= d /\ d < Hour) =>
                       /\ words = "fenzhong qian"
                       /\ count * Minute <= d /\ d < (count + 1) * Minute
                 /\ (Hour <= d /\ d < Day) =>
                       /\ words = "xiaoshi qian"
                       /\ count * Hour <= d /\ d < (count + 1) * Hour
                 /\ Day <= d =>
                       /\ words = "tian qian"
                       /\ count * Day <= d /\ d < (count + 1) * Day

InitDebounce ==
    /\ InitTimers
    /\ wait \in 0..MaxWait
    /\ timeout = 0
    /\ calls = <<>>
    /\ execs = <<>>
    /\ IdleNotify
    /\ IdleChart
    /\ IdleStore
    /\ IdleFormat

NextDebounce == DebounceInvoke \/ DebounceFire \/ Tick

SpecDebounce == InitDebounce /\ [][NextDebounce]_vars

\* The event loop runs a due callback, and time passes.
FairDebounce == SpecDebounce /\ WF_vars(DebounceFire) /\ WF_vars(Tick)

\* --------------------------------------------------- NotificationManager
Types == {"warning"}
Durations == 0..MaxDur

\* const colors = {...}; colors[type] || '#3b82f6'
colors(type) ==
    CASE type = "success" -> "#10b981"
      [] type = "error"   -> "#ef4444"
      [] type = "warning" -> "#f59e0b"
      [] type = "info"    -> "#3b82f6"
      [] OTHER            -> "#3b82f6"

\* getTitle(type): titles[type] || the generic title (titles in pinyin)
getTitle(type) ==
    CASE type = "success" -> "chenggong"
      [] type = "error"   -> "cuowu"
      [] type = "warning" -> "jinggao"
      [] type = "info"    -> "xinxi"
      [] OTHER            -> "tongzhi"

RECURSIVE Without(_, _)
Without(s, x) ==
    IF s = <<>> THEN <<>>
    ELSE IF Head(s) = x THEN Without(Tail(s), x)
    ELSE <<Head(s)>> \o Without(Tail(s), x)

InSeq(s, x) == \E i \in 1..Len(s) : s[i] = x

\* notification.parentNode: the container holding node n, 0 for none.
parentNode(cs, n) ==
    IF \E c \in 1..Len(cs) : InSeq(cs[c], n)
    THEN CHOOSE c \in 1..Len(cs) : InSeq(cs[c], n)
    ELSE 0

Attached(n) == parentNode(containers, n) # 0

\* Variant: a detached node's remove() drops the container's first child.
remove_DropsFirst(cs, n) ==
    IF parentNode(cs, n) # 0
    THEN [cs EXCEPT ![parentNode(cs, n)] = Without(@, n)]
    ELSE [c \in 1..Len(cs) |-> IF cs[c] = <<>> THEN cs[c] ELSE Tail(cs[c])]

\* Element.remove(): detach n from its parent; nothing when it has none.
remove(cs, n) ==
    IF parentNode(cs, n) # 0
    THEN [cs EXCEPT ![parentNode(cs, n)] = Without(@, n)]
    ELSE cs

\* constructor() -> init(): a new container div is appended to body.
NewManager ==
    /\ Len(containers) < MaxManagers
    /\ containers' = Append(containers, <<>>)
    /\ UNCHANGED <<tvars, nodes, offNotify>>

\* Variant: the auto-dismiss test reads `duration >= 0`.
show_NonNegative(m, type, duration) ==
    /\ Len(nodes) < MaxNodes
    /\ now + duration <= MaxTime
    /\ nodes' = Append(nodes, [mgr |-> m, border |-> colors(type),
                               title |-> getTitle(type), dur |-> duration,
                               created |-> now])
    /\ containers' = [containers EXCEPT ![m] = Append(@, Len(nodes) + 1)]
    /\ IF duration >= 0
       THEN /\ timers' = setTimeout(timers, nextId, duration, "dismiss",
                                    NoArgs, Len(nodes) + 1)
            /\ nextId' = nextId + 1
       ELSE UNCHANGED <<timers, nextId>>
    /\ UNCHANGED <<now, offNotify>>

\* Variant: no auto-dismiss timer is scheduled.
show_NoTimer(m, type, duration) ==
    /\ Len(nodes) < MaxNodes
    /\ now + duration <= MaxTime
    /\ nodes' = Append(nodes, [mgr |-> m, border |-> colors(type),
                               title |-> getTitle(type), dur |-> duration,
                               created |-> now])
    /\ containers' = [containers EXCEPT ![m] = Append(@, Len(nodes) + 1)]
    /\ UNCHANGED <<tvars, offNotify>>

\* show(message, type, duration): build the element, append it to this
\* manager's container, schedule the auto-dismiss when duration > 0.
show(m, type, duration) ==
    /\ Len(nodes) < MaxNodes
    /\ now + duration <= MaxTime
    /\ nodes' = Append(nodes, [mgr |-> m, border |-> colors(type),
                               title |-> getTitle(type), dur |-> duration,
                               created |-> now])
    /\ containers' = [containers EXCEPT ![m] = Append(@, Len(nodes) + 1)]
    /\ IF duration > 0
       THEN /\ timers' = setTimeout(timers, nextId, duration, "dismiss",
                                    NoArgs, Len(nodes) + 1)
            /\ nextId' = nextId + 1
       ELSE UNCHANGED <<timers, nextId>>
    /\ UNCHANGED <<now, offNotify>>

\* Variant: the callback removes the newest child of the node's container.
autoDismiss_RemovesNewest(t) ==
    /\ timers' = timers \ {t}
    /\ containers' =
          LET cs == containers[nodes[t.node].mgr]
          IN  IF cs = <<>> THEN containers
              ELSE remove(containers, Last(cs))
    /\ UNCHANGED <<now, nextId, nodes, offNotify>>

\* The setTimeout callback: if (notification.parentNode) notification.remove()
autoDismiss(t) ==
    /\ timers' = timers \ {t}
    /\ containers' = IF parentNode(containers, t.node) # 0
                     THEN remove(containers, t.node)
                     ELSE containers
    /\ UNCHANGED <<now, nextId, nodes, offNotify>>

\* The caller dismisses through the handle show() returned: the element.
dismiss(n) ==
    /\ containers' = remove(containers, n)
    /\ UNCHANGED <<tvars, nodes, offNotify>>

NotifyShow ==
    \E m \in 1..Len(containers), type \in Types, duration \in Durations :
        show(m, type, duration)

NotifyExpire ==
    \E t \in timers : NextDue(t) /\ t.kind = "dismiss" /\ autoDismiss(t)

NotifyDismiss == \E n \in 1..Len(nodes) : dismiss(n)

InitNotify ==
    InitTimers /\ IdleDebounce /\ IdleNotify /\ IdleChart /\ IdleStore
    /\ IdleFormat

NextNotify == NewManager \/ NotifyShow \/ NotifyExpire \/ NotifyDismiss \/ Tick

SpecNotify == InitNotify /\ [][NextNotify]_vars

\* The event loop runs a due callback, and time passes.
FairNotify == SpecNotify /\ WF_vars(NotifyExpire) /\ WF_vars(Tick)

\* A page that constructs several NotificationManager instances: every
\* constructor runs init() and appends its own container div to body.
NewInstance ==
    /\ Len(containers) < MaxInstances
    /\ containers' = Append(containers, <<>>)
    /\ UNCHANGED <<tvars, nodes, offNotify>>

InitManagers ==
    InitTimers /\ IdleDebounce /\ IdleNotify /\ IdleChart /\ IdleStore
    /\ IdleFormat

NextManagers ==
    NewInstance \/ NotifyShow \/ NotifyExpire \/ NotifyDismiss \/ Tick

SpecManagers == InitManagers /\ [][NextManagers]_vars

\* ---------------------------------------------------------- ChartManager
\* Map.prototype.set: replace the value of an existing key in place,
\* append a new entry otherwise.
HasKey(m, k) == \E i \in 1..Len(m) : m[i].key = k

\* Variant: every set appends an entry.
MapSet_Append(m, k, v) == Append(m, [key |-> k, value |-> v])

MapSet(m, k, v) ==
    IF HasKey(m, k)
    THEN [i \in 1..Len(m) |-> IF m[i].key = k THEN [key |-> k, value |-> v]
                                               ELSE m[i]]
    ELSE Append(m, [key |-> k, value |-> v])

MapGet(m, k) == (CHOOSE i \in 1..Len(m) : m[i].key = k)

\* echarts.init(dom): a fresh instance, or the instance the library already
\* holds for that element.
echartsInit(id) ==
    {nextChart} \cup (IF engine[id] # 0 THEN {engine[id]} ELSE {})

\* chart.setOption(options)
setOption(ap, chart, options) ==
    IF chart <= Len(ap) THEN [ap EXCEPT ![chart] = options]
    ELSE Append(ap, options)

\* Variant: the container lookup is not tested.
initChart_NoNullCheck(chartId, options) ==
    /\ Len(listeners) < MaxInits
    /\ \E chart \in echartsInit(chartId) :
         /\ engine' = [engine EXCEPT ![chartId] = chart]
         /\ nextChart' = IF chart = nextChart THEN nextChart + 1
                         ELSE nextChart
         /\ applied' = setOption(applied, chart, options)
         /\ charts' = MapSet(charts, chartId, chart)
         /\ listeners' = Append(listeners, chart)
         /\ lastRet' = chart
         /\ returned' = [returned EXCEPT ![chartId] = chart]
    /\ resized' = NoResize
    /\ UNCHANGED <<dom, logged, offChart>>

\* Variant: a call that finds no container forgets the id's chart.
initChart_ForgetsOnMiss(chartId, options) ==
    IF chartId \notin dom
    THEN /\ lastRet' = 0
         /\ logged' = logged \cup {chartId}
         /\ charts' = SelectSeq(charts, LAMBDA e : e.key # chartId)
         /\ resized' = NoResize
         /\ UNCHANGED <<dom, engine, nextChart, applied, listeners,
                        returned, offChart>>
    ELSE /\ Len(listeners) < MaxInits
         /\ \E chart \in echartsInit(chartId) :
              /\ engine' = [engine EXCEPT ![chartId] = chart]
              /\ nextChart' = IF chart = nextChart THEN nextChart + 1
                              ELSE nextChart
              /\ applied' = setOption(applied, chart, options)
              /\ charts' = MapSet(charts, chartId, chart)
              /\ listeners' = Append(listeners, chart)
              /\ lastRet' = chart
              /\ returned' = [returned EXCEPT ![chartId] = chart]
         /\ resized' = NoResize
    /\ UNCHANGED <<dom, logged, offChart>>

\* initChart(chartId, options)
initChart(chartId, options) ==
    IF chartId \notin dom
    THEN /\ lastRet' = 0
         /\ logged' = logged \cup {chartId}
         /\ resized' = NoResize
         /\ UNCHANGED <<dom, engine, nextChart, applied, charts, listeners,
                        returned, offChart>>
    ELSE /\ Len(listeners) < MaxInits
         /\ \E chart \in echartsInit(chartId) :
              /\ engine' = [engine EXCEPT ![chartId] = chart]
              /\ nextChart' = IF chart = nextChart THEN nextChart + 1
                              ELSE nextChart
              /\ applied' = setOption(applied, chart, options)
              /\ charts' = MapSet(charts, chartId, chart)
              /\ listeners' = Append(listeners, chart)
              /\ lastRet' = chart
              /\ returned' = [returned EXCEPT ![chartId] = chart]
         /\ resized' = NoResize
    /\ UNCHANGED <<dom, logged, offChart>>

\* A sensorData argument: null, or an object given by its entries in
\* insertion order.  intKey is the key's value when the key is an integer
\* index ("1", "2"), else 0; hasHistory tells whether data.history is set.
Entry(key, intKey, name, hasHistory, history) ==
    [key |-> key, intKey |-> intKey, name |-> name,
     hasHistory |-> hasHistory, history |-> history]

Sample(timestamp, value) == [timestamp |-> timestamp, value |-> value]

Object(entries) == [isNull |-> FALSE, entries |-> entries]

SensorInputs ==
    { [isNull |-> TRUE, entries |-> <<>>],
      Object(<<>>),
      Object(<<Entry("s1", 0, "Temp", TRUE, <<>>),
               Entry("s2", 0, "Humidity", TRUE, <<Sample(1000, 20)>>)>>),
      Object(<<Entry("s1", 0, "Temp", TRUE,
                     <<Sample(1000, 5), Sample(2000, 7)>>),
               Entry("s2", 0, "Light", FALSE, <<>>)>>),
      Object(<<Entry("s2", 0, "Humidity", TRUE, <<Sample(1000, 20)>>),
               Entry("s1", 0, "Temp", TRUE, <<Sample(2000, 5)>>)>>),
      Object(<<Entry("2", 2, "Humidity", TRUE, <<Sample(1000, 20)>>),
               Entry("1", 1, "Temp", TRUE, <<Sample(2000, 5)>>)>>) }

RECURSIVE SelectKeys(_, _)
SelectKeys(obj, int) ==
    IF obj = <<>> THEN <<>>
    ELSE IF (Head(obj).intKey # 0) = int
         THEN <<Head(obj)>> \o SelectKeys(Tail(obj), int)
         ELSE SelectKeys(Tail(obj), int)

RECURSIVE SortByIntKey(_)
SortByIntKey(es) ==
    IF es = <<>> THEN <<>>
    ELSE LET i == CHOOSE i \in 1..Len(es) :
                      \A j \in 1..Len(es) : es[i].intKey <= es[j].intKey
         IN  <<es[i]>> \o
             SortByIntKey([j \in 1..(Len(es) - 1) |->
                              IF j < i THEN es[j] ELSE es[j + 1]])

\* Object.entries(obj): integer keys ascending, then the other keys in
\* insertion order.
ObjectEntries(obj) ==
    SortByIntKey(SelectKeys(obj, TRUE)) \o SelectKeys(obj, FALSE)

\* data.history.map(item => [item.timestamp, item.value])
RECURSIVE mapHistory(_)
mapHistory(h) ==
    IF h = <<>> THEN <<>>
    ELSE << <<Head(h).timestamp, Head(h).value>> >> \o mapHistory(Tail(h))

\* Variant: the history is tested for presence only, not for length.
RECURSIVE buildSeries_KeepsEmpty(_)
buildSeries_KeepsEmpty(es) ==
    IF es = <<>> THEN <<>>
    ELSE LET data == Head(es)
         IN  (IF data.hasHistory
              THEN <<[name |-> data.name, type |-> "line",
                      data |-> mapHistory(data.history), smooth |-> TRUE]>>
              ELSE <<>>) \o buildSeries_KeepsEmpty(Tail(es))

\* The forEach of createSensorTrendChart: one series per entry with a
\* non-empty history.
RECURSIVE buildSeries(_)
buildSeries(es) ==
    IF es = <<>> THEN <<>>
    ELSE LET data == Head(es)
         IN  (IF data.hasHistory /\ Len(data.history) > 0
              THEN <<[name |-> data.name, type |-> "line",
                      data |-> mapHistory(data.history), smooth |-> TRUE]>>
              ELSE <<>>) \o buildSeries(Tail(es))

\* The option object of createSensorTrendChart: its series.
trendOption(sensorData) ==
    IF ~sensorData.isNull /\ Len(sensorData.entries) > 0
    THEN buildSeries(ObjectEntries(sensorData.entries))
    ELSE <<>>

\* createSensorTrendChart(chartId, sensorData)
createSensorTrendChart(chartId, sensorData) ==
    initChart(chartId, trendOption(sensorData))

\* window 'resize' event: every attached listener runs chart.resize().
WindowResize ==
    /\ resized' = [by |-> "window", log |-> listeners]
    /\ UNCHANGED <<dom, engine, nextChart, applied, charts, listeners,
                   lastRet, returned, logged, offChart>>

\* Variant: every chart ever given a resize listener is resized.
resizeAll_Listeners ==
    /\ resized' = [by |-> "resizeAll", log |-> listeners]
    /\ UNCHANGED <<dom, engine, nextChart, applied, charts, listeners,
                   lastRet, returned, logged, offChart>>

\* resizeAll(): this.charts.forEach(chart => chart.resize())
resizeAll ==
    /\ resized' = [by |-> "resizeAll",
                   log |-> [i \in 1..Len(charts) |-> charts[i].value]]
    /\ UNCHANGED <<dom, engine, nextChart, applied, charts, listeners,
                   lastRet, returned, logged, offChart>>

\* The page gains or loses a chart container element.
AddContainer ==
    \E id \in ChartIds \ dom :
        /\ dom' = dom \cup {id}
        /\ resized' = NoResize
        /\ UNCHANGED <<engine, nextChart, applied, charts, listeners,
                       lastRet, returned, logged, offChart>>

RemoveContainer ==
    \E id \in dom :
        /\ dom' = dom \ {id}
        /\ engine' = [engine EXCEPT ![id] = 0]
        /\ resized' = NoResize
        /\ UNCHANGED <<nextChart, applied, charts, listeners,
                       lastRet, returned, logged, offChart>>

ChartInit == \E id \in ChartIds : initChart(id, <<>>)

ChartTrend ==
    \E id \in ChartIds, sensorData \in SensorInputs :
        createSensorTrendChart(id, sensorData)

InitChart ==
    InitTimers /\ IdleDebounce /\ IdleNotify /\ IdleChart /\ IdleStore
    /\ IdleFormat

NextChart ==
    \/ ChartInit \/ ChartTrend \/ WindowResize \/ resizeAll
    \/ AddContainer \/ RemoveContainer

SpecChart == InitChart /\ [][NextChart]_vars

\* ------------------------------------------- the page: charts or notices
\* ChartManager and NotificationManager share no state, so the page is
\* followed through the steps of one of them at a time.
PageCharts ==
    /\ IdleNotify /\ now = 0
    /\ (ChartInit \/ AddContainer \/ RemoveContainer)

PageNotices == IdleChart /\ NextNotify

InitPage ==
    InitTimers /\ IdleDebounce /\ IdleNotify /\ IdleChart /\ IdleStore
    /\ IdleFormat

NextPage == PageCharts \/ PageNotices

SpecPage == InitPage /\ [][NextPage]_vars

\* -------------------------------------------------------- JSON.stringify
DigitChars == <<"0", "1", "2", "3", "4", "5", "6", "7", "8", "9">>

IsDigit(c) == \E d \in 1..10 : DigitChars[d] = c

DigitVal(c) == (CHOOSE d \in 1..10 : DigitChars[d] = c) - 1

RECURSIVE NatText(_)
NatText(n) ==
    IF n < 10 THEN <<DigitChars[n + 1]>>
    ELSE NatText(n \div 10) \o <<DigitChars[(n % 10) + 1]>>

NumText(n) == IF n < 0 THEN <<"-">> \o NatText(-n) ELSE NatText(n)

\* QuoteJSONString: escape the quote and the backslash.
RECURSIVE Escape(_)
Escape(s) ==
    IF s = <<>> THEN <<>>
    ELSE (IF Head(s) = "\"" \/ Head(s) = "\\" THEN <<"\\", Head(s)>>
          ELSE <<Head(s)>>) \o Escape(Tail(s))

RECURSIVE ValueText(_)
RECURSIVE ItemsText(_)
ItemsText(items) ==
    IF items = <<>> THEN <<>>
    ELSE ValueText(Head(items)) \o
         (IF Tail(items) = <<>> THEN <<>> ELSE <<",">> \o ItemsText(Tail(items)))

ValueText(v) ==
    CASE v.t = "null"    -> <<"n", "u", "l", "l">>
      [] v.t = "boolean" -> IF v.b THEN <<"t", "r", "u", "e">>
                            ELSE <<"f", "a", "l", "s", "e">>
      [] v.t = "number"  -> NumText(v.n)
      [] v.t = "string"  -> <<"\"">> \o Escape(v.s) \o <<"\"">>
      [] v.t = "array"   -> <<"[">> \o ItemsText(v.items) \o <<"]">>

\* JSON.stringify(value): a text, the value undefined (for undefined), or
\* a TypeError (for a cyclic structure).
stringify(v) ==
    CASE v.t = "cyclic"    -> [kind |-> "throw", text |-> <<>>]
      [] v.t = "undefined" -> [kind |-> "undefined", text |-> <<>>]
      [] OTHER             -> [kind |-> "text", text |-> ValueText(v)]

\* ------------------------------------------------------------ JSON.parse
Parsed(v, next) == [ok |-> TRUE, value |-> v, next |-> next]
Failed == [ok |-> FALSE, value |-> Null, next |-> 0]

StartsAt(s, i, lit) ==
    /\ i + Len(lit) - 1 <= Len(s)
    /\ \A j \in 1..Len(lit) : s[i + j - 1] = lit[j]

Literal(s, i, lit, v) ==
    IF StartsAt(s, i, lit) THEN Parsed(v, i + Len(lit)) ELSE Failed

\* The digits from i on, read after the value acc.
RECURSIVE ParseDigits(_, _, _)
ParseDigits(s, i, acc) ==
    IF i <= Len(s) /\ IsDigit(s[i])
    THEN ParseDigits(s, i + 1, acc * 10 + DigitVal(s[i]))
    ELSE [value |-> acc, next |-> i]

\* number: -? (0 | [1-9][0-9]*)
ParseNumber(s, i) ==
    LET neg == s[i] = "-"
        j == IF neg THEN i + 1 ELSE i
    IN  IF j > Len(s) \/ ~IsDigit(s[j]) THEN Failed
        ELSE IF s[j] = "0" THEN Parsed(Num(0), j + 1)
        ELSE LET d == ParseDigits(s, j, 0)
             IN  Parsed(Num(IF neg THEN -d.value ELSE d.value), d.next)

\* The characters of a string up to its closing quote.
RECURSIVE ParseChars(_, _, _)
ParseChars(s, i, acc) ==
    IF i > Len(s) THEN Failed
    ELSE IF s[i] = "\"" THEN Parsed(Str(acc), i + 1)
    ELSE IF s[i] = "\\"
         THEN IF i + 1 <= Len(s) /\ (s[i + 1] = "\"" \/ s[i + 1] = "\\")
              THEN ParseChars(s, i + 2, Append(acc, s[i + 1]))
              ELSE Failed
    ELSE ParseChars(s, i + 1, Append(acc, s[i]))

RECURSIVE ParseValue(_, _)
RECURSIVE ParseItems(_, _, _)
ParseItems(s, i, acc) ==
    LET r == ParseValue(s, i)
    IN  IF ~r.ok \/ r.next > Len(s) THEN Failed
        ELSE IF s[r.next] = "]"
             THEN Parsed(Arr(Append(acc, r.value)), r.next + 1)
        ELSE IF s[r.next] = ","
             THEN ParseItems(s, r.next + 1, Append(acc, r.value))
        ELSE Failed

ParseValue(s, i) ==
    IF i > Len(s) THEN Failed
    ELSE CASE s[i] = "n" -> Literal(s, i, <<"n", "u", "l", "l">>, Null)
           [] s[i] = "t" -> Literal(s, i, <<"t", "r", "u", "e">>, Bool(TRUE))
           [] s[i] = "f" ->
                Literal(s, i, <<"f", "a", "l", "s", "e">>, Bool(FALSE))
           [] s[i] = "\"" -> ParseChars(s, i + 1, <<>>)
           [] s[i] = "[" ->
                IF i + 1 <= Len(s) /\ s[i + 1] = "]"
                THEN Parsed(Arr(<<>>), i + 2)
                ELSE ParseItems(s, i + 1, <<>>)
           [] s[i] = "-" \/ IsDigit(s[i]) -> ParseNumber(s, i)
           [] OTHER -> Failed

\* JSON.parse(text): the value, or a SyntaxError.
parse(text) ==
    LET r == ParseValue(text, 1)
    IN  IF r.ok /\ r.next = Len(text) + 1
        THEN [kind |-> "value", value |-> r.value]
        ELSE [kind |-> "throw", value |-> Null]

\* ---------------------------------------------------------- localStorage
RECURSIVE Used(_, _)
Used(st, ks) ==
    IF ks = {} THEN 0
    ELSE LET k == CHOOSE k \in ks : TRUE
         IN  Len(st[k].text) + Used(st, ks \ {k})

\* String(x) of setItem's second argument.
ToText(json) ==
    IF json.kind = "undefined"
    THEN <<"u", "n", "d", "e", "f", "i", "n", "e", "d">>
    ELSE json.text

\* localStorage.setItem(key, text): throws when the storage cannot be
\* accessed or the quota would be exceeded.
setItem(st, key, text) ==
    LET after == [st EXCEPT ![key] = Item(text)]
    IN  IF ~available \/ Used(after, Keys) > Quota
        THEN [threw |-> TRUE, store |-> st]
        ELSE [threw |-> FALSE, store |-> after]

\* localStorage.getItem(key): the text, null when the key is absent.
getItem(st, key) ==
    IF ~available THEN [threw |-> TRUE, item |-> NoItem]
    ELSE [threw |-> FALSE, item |-> st[key]]

\* --------------------------------------------------------- StorageManager
\* The try block of set: localStorage.setItem(key, JSON.stringify(value)).
setBody(st, key, value) ==
    LET json == stringify(value)
    IN  IF json.kind = "throw" THEN [threw |-> TRUE, store |-> st]
        ELSE setItem(st, key, ToText(json))

\* The try block of get:
\*   item = localStorage.getItem(key);
\*   return item ? JSON.parse(item) : defaultValue
getBody(st, key, defaultValue) ==
    LET got == getItem(st, key)
    IN  IF got.threw THEN [threw |-> TRUE, value |-> Null]
        ELSE IF ~got.item.has \/ got.item.text = <<>>
             THEN [threw |-> FALSE, value |-> defaultValue]
        ELSE LET p == parse(got.item.text)
             IN  IF p.kind = "throw" THEN [threw |-> TRUE, value |-> Null]
                 ELSE [threw |-> FALSE, value |-> p.value]

\* Variant: `JSON.parse(item) || defaultValue`.
getValue_FalsyDefault(st, key, defaultValue) ==
    LET r == getBody(st, key, defaultValue)
    IN  IF r.threw THEN defaultValue
        ELSE IF r.value \in {Null, Bool(FALSE), Num(0), Str(<<>>)}
             THEN defaultValue
        ELSE r.value

\* StorageManager.get(key, defaultValue), as a function of the storage.
getValue(st, key, defaultValue) ==
    LET r == getBody(st, key, defaultValue)
    IN  IF r.threw THEN defaultValue ELSE r.value

\* StorageManager.set(key, value)
set(key, value) ==
    LET r == setBody(store, key, value)
    IN  /\ store' = r.store
        /\ sOp' = [op |-> "set", key |-> key, arg |-> value,
                   ret |-> Bool(~r.threw), threw |-> FALSE]
        /\ UNCHANGED <<available, offStore>>

\* Variant: the try block without its catch.
get_NoCatch(key, defaultValue) ==
    LET r == getBody(store, key, defaultValue)
    IN  /\ sOp' = [op |-> "get", key |-> key, arg |-> defaultValue,
                   ret |-> r.value, threw |-> r.threw]
        /\ UNCHANGED <<store, available, offStore>>

\* StorageManager.get(key, defaultValue)
get(key, defaultValue) ==
    /\ sOp' = [op |-> "get", key |-> key, arg |-> defaultValue,
               ret |-> getValue(store, key, defaultValue), threw |-> FALSE]
    /\ UNCHANGED <<store, available, offStore>>

StoreSet == \E key \in Keys, value \in JSValues : set(key, value)

StoreGet == \E key \in Keys, d \in Defaults : get(key, d)

\* Another script writes a text under a key, or clears the storage.
ExternalWrite ==
    \E key \in Keys, text \in RawTexts :
        /\ available
        /\ store' = [store EXCEPT ![key] = Item(text)]
        /\ sOp' = [sOp EXCEPT !.op = "external"]
        /\ UNCHANGED <<available, offStore>>

ExternalClear ==
    /\ available
    /\ store' = [k \in Keys |-> NoItem]
    /\ sOp' = [sOp EXCEPT !.op = "external"]
    /\ UNCHANGED <<available, offStore>>

\* The storage becomes unavailable (blocked, private mode) or available.
ToggleAvailable ==
    /\ available' = ~available
    /\ sOp' = [sOp EXCEPT !.op = "external"]
    /\ UNCHANGED <<store, offStore>>

InitStore ==
    InitTimers /\ IdleDebounce /\ IdleNotify /\ IdleChart /\ IdleStore
    /\ IdleFormat

NextStore ==
    StoreSet \/ StoreGet \/ ExternalWrite \/ ExternalClear \/ ToggleAvailable

SpecStore == InitStore /\ [][NextStore]_vars

\* ------------------------------------------------------ debounce: claims
CallIdx(id) == CHOOSE i \in 1..Len(calls) : calls[i].id = id

\* Invocation i is the last of its burst: the next one, if any, came no
\* sooner than `wait` after it.
EndsBurst(i) ==
    i = Len(calls) \/ calls[i + 1].time - calls[i].time >= wait

ExecsOf(id) == {j \in 1..Len(execs) : execs[j].id = id}

C1_Coalesced ==
    /\ \A j \in 1..Len(execs) :
          LET i == CallIdx(execs[j].id)
          IN  /\ EndsBurst(i)
              /\ execs[j].args = calls[i].args
              /\ execs[j].time >= calls[i].time + wait
    /\ \A i \in 1..Len(calls) : Cardinality(ExecsOf(calls[i].id)) <= 1

C1_LastBurstRan ==
    calls # <<>> => Cardinality(ExecsOf(Last(calls).id)) = 1

ExecsSinceLastCall == {j \in 1..Len(execs) : execs[j].seen = Len(calls)}

C18_NotEarly ==
    /\ \A j \in 1..Len(execs) :
          /\ execs[j].seen >= 1
          /\ execs[j].time >= calls[execs[j].seen].time + wait
    /\ Len(execs) <= Len(calls)

C18_Settled ==
    calls # <<>> =>
        /\ Cardinality(ExecsSinceLastCall) = 1
        /\ Last(execs).args = Last(calls).args
        /\ timers = {}

\* C18: func never runs sooner than `wait` after the most recent
\* invocation, it has never run more often than the wrapper was invoked,
\* and once the invocations stop it runs exactly once more, with the last
\* arguments, after which no timer is pending.
C18_DebounceTiming == []C18_NotEarly /\ <>[]C18_Settled

C18_Witness ==
    /\ wait > 0
    /\ Len(calls) >= 2
    /\ Len(execs) < Len(calls)
    /\ Cardinality(ExecsSinceLastCall) = 1
    /\ Last(execs).time >= Last(calls).time + wait
    /\ timers = {}

\* C2: at most one timer of the wrapped instance is pending, it is the
\* timer of the most recent invocation (an invocation replaces the pending
\* timer), and func never runs for an invocation that was superseded.
C2_OnePendingTimer ==
    /\ Cardinality(timers) <= 1
    /\ \A t \in timers : calls # <<>> /\ t.id = Last(calls).id /\ t.id = timeout
    /\ \A j \in 1..Len(execs) : CallIdx(execs[j].id) = execs[j].seen

C2_Witness ==
    /\ Len(calls) >= 2
    /\ calls[2].time < calls[1].time + wait
    /\ \E t \in timers : t.id = calls[2].id
    /\ execs = <<>>

\* -------------------------------------------------------- charts: claims
EntriesOf(id) == {i \in 1..Len(charts) : charts[i].key = id}

\* C3: after any sequence of successful initChart calls each registered
\* chart id has exactly one window-resize listener, the one of its current
\* handle, so a window resize event resizes each registered chart once.
C3_OneListenerPerId ==
    /\ Len(listeners) = Len(charts)
    /\ \A i \in 1..Len(charts) : Count(listeners, charts[i].value) = 1
    /\ resized.by = "window" =>
          \A i \in 1..Len(charts) : Count(resized.log, charts[i].value) <= 1

\* C4: the registry holds exactly one entry for every chart id that was
\* initialised with success and none for any other id, and the entry's
\* handle is the one the most recent successful call for that id returned.
C4_OneHandlePerId ==
    \A id \in ChartIds :
        IF returned[id] = 0 THEN EntriesOf(id) = {}
        ELSE /\ Cardinality(EntriesOf(id)) = 1
             /\ charts[MapGet(charts, id)].value = returned[id]

C4_Witness ==
    \E id \in ChartIds :
        /\ Len(listeners) >= 2
        /\ Len(charts) = 1
        /\ returned[id] = 2
        /\ applied[2] # <<>>

IsInitCall(id) ==
    \/ initChart(id, <<>>)
    \/ \E sensorData \in SensorInputs : createSensorTrendChart(id, sensorData)

\* C12: initChart, and createSensorTrendChart through it, returns null for
\* a chart id whose container is absent, reporting the id, and for an id
\* whose container is present it returns the chart and registers it, also
\* when an earlier call for that id had returned null.
C12_MissingContainer ==
    [][\A id \in ChartIds :
          IsInitCall(id) =>
              IF id \notin dom
              THEN lastRet' = 0 /\ id \in logged'
              ELSE /\ lastRet' # 0
                   /\ HasKey(charts', id)
                   /\ charts'[MapGet(charts', id)].value = lastRet'
      ]_vars

C12_Witness ==
    \E id \in ChartIds :
        /\ id \in logged
        /\ id \in dom
        /\ lastRet # 0
        /\ returned[id] = lastRet
        /\ HasKey(charts, id)
        /\ charts[MapGet(charts, id)].value = lastRet

\* The entries of es that have a non-empty history, and the place of
\* entry i among them.
WithHistory(es) ==
    {i \in 1..Len(es) : es[i].hasHistory /\ Len(es[i].history) > 0}

PlaceOf(es, i) == Cardinality({j \in WithHistory(es) : j <= i})

\* series holds one line series per entry of es with a non-empty history,
\* in the order of es, named after the entry, with its samples in order.
SeriesFollow(series, es) ==
    /\ Len(series) = Cardinality(WithHistory(es))
    /\ \A i \in WithHistory(es) :
          LET line == series[PlaceOf(es, i)]
              h == es[i].history
          IN  /\ line.name = es[i].name
              /\ line.type = "line"
              /\ Len(line.data) = Len(h)
              /\ \A k \in 1..Len(h) :
                    line.data[k] = <<h[k].timestamp, h[k].value>>

\* C13 as stated: the series of createSensorTrendChart are one per entry
\* with a non-empty history, in the insertion order of the input map.
C13_InsertionOrder ==
    [][\A id \in dom, sensorData \in SensorInputs :
          createSensorTrendChart(id, sensorData) =>
              SeriesFollow(applied'[lastRet'], sensorData.entries)
      ]_vars

\* C13 amended: the series are one per entry with a non-empty history and
\* none for an empty or missing history, in the order in which
\* Object.entries enumerates the input: the keys that are integer indices
\* first, ascending, then the other keys in insertion order.
C13_EnumerationOrder ==
    [][\A id \in dom, sensorData \in SensorInputs :
          createSensorTrendChart(id, sensorData) =>
              SeriesFollow(applied'[lastRet'], ObjectEntries(sensorData.entries))
      ]_vars

C13_Witness ==
    \E chart \in 1..Len(applied) :
        /\ Len(applied[chart]) = 2
        /\ applied[chart][1].name = "Temp"
        /\ applied[chart][2].name = "Humidity"
        /\ lastRet = chart

InRegistry(chart) == \E i \in 1..Len(charts) : charts[i].value = chart

\* C14: resizeAll calls resize once on every chart the registry holds and
\* on no other chart, in particular on none that a later initChart for the
\* same id replaced; with an empty registry it calls nothing.
C14_ResizeAll ==
    [][resizeAll =>
          /\ Len(resized'.log) = Len(charts)
          /\ \A chart \in 1..nextChart :
                Count(resized'.log, chart) = IF InRegistry(chart) THEN 1 ELSE 0
      ]_vars

C14_Witness ==
    /\ resized.by = "resizeAll"
    /\ Len(resized.log) = 1
    /\ Len(charts) = 1
    /\ resized.log[1] = charts[1].value
    /\ \E i \in 1..Len(listeners) : listeners[i] # charts[1].value

\* ------------------------------------------------------- storage: claims
\* C9: right after a set(k, v) of a JSON-serializable v that returned true,
\* get(k, d) yields a value equal to v in structure, whatever d is, also
\* for the falsy values 0, false, "" and null.
C9_RoundTrip ==
    sOp.op = "set" /\ sOp.ret = Bool(TRUE) /\ sOp.arg \in JsonValues =>
        \A d \in Defaults : getValue(store, sOp.key, d) = sOp.arg

C9_Witness ==
    /\ sOp.op = "set"
    /\ sOp.ret = Bool(TRUE)
    /\ sOp.arg = Str(<<>>)
    /\ store[sOp.key] = Item(<<"\"", "\"">>)
    /\ \E k \in Keys : store[k].has /\ parse(store[k].text).value = Bool(FALSE)

WriteFails(key, value) ==
    \/ ~available
    \/ Used([store EXCEPT ![key] = Item(ToText(stringify(value)))], Keys) > Quota

\* C10: a set(k, v) whose v cannot be serialized, or whose write fails,
\* returns false, does not throw, and leaves the stored values unchanged.
C10_FailedSetKeepsValue ==
    [][\A key \in Keys, value \in JSValues :
          set(key, value)
          /\ (stringify(value).kind # "text" \/ WriteFails(key, value)) =>
              /\ sOp'.ret = Bool(FALSE)
              /\ ~sOp'.threw
              /\ store' = store
      ]_vars

\* C11: get(k, d) never throws; it returns d when the key is absent, when
\* the stored text is not valid JSON, or when the read fails, and the
\* deserialized stored value in every other case.
C11_GetNeverThrows ==
    sOp.op = "get" =>
        /\ ~sOp.threw
        /\ sOp.ret =
              IF \/ ~available
                 \/ ~store[sOp.key].has
                 \/ parse(store[sOp.key].text).kind = "throw"
              THEN sOp.arg
              ELSE parse(store[sOp.key].text).value

C11_Witness ==
    /\ sOp.op = "get"
    /\ available
    /\ store[sOp.key] = Item(<<"{">>)
    /\ sOp.arg = Num(7)
    /\ sOp.ret = Num(7)
    /\ \E k \in Keys : store[k] = NoItem

\* ------------------------------------------------- notifications: claims
\* C15: however many NotificationManager instances are constructed, the
\* document holds at most one notification container, and every attached
\* entry is a child of that one container.
C15_SingleContainer ==
    /\ Len(containers) <= 1
    /\ \A n \in 1..Len(nodes) : Attached(n) => parentNode(containers, n) = 1

TimersOf(n) == {t \in timers : t.kind = "dismiss" /\ t.node = n}

C5_NoReentry ==
    \A n \in 1..Len(nodes) : ~Attached(n) => ~Attached(n)'

C5_NotBeforeExpiry ==
    \A t \in timers :
        autoDismiss(t) /\ Attached(t.node) =>
            /\ ~Attached(t.node)'
            /\ now >= nodes[t.node].created + nodes[t.node].dur

\* C5: an entry shown with duration > 0 is eventually out of its container,
\* its timer removes it no sooner than `duration` after its creation, and
\* an entry that has left its container never re-enters it.
C5_NotificationLifecycle ==
    /\ [][C5_NoReentry /\ C5_NotBeforeExpiry]_vars
    /\ \A n \in 1..MaxNodes :
          [](n <= Len(nodes) /\ nodes[n].dur > 0 => <>(~Attached(n)))

C5_Witness ==
    \E n \in 1..Len(nodes) :
        /\ nodes[n].dur > 0
        /\ ~Attached(n)
        /\ TimersOf(n) = {}
        /\ now >= nodes[n].created + nodes[n].dur

\* C6: dismissing through the handle is idempotent: on an entry that is
\* already out of its container it changes nothing, a second dismissal
\* after the first changes nothing more, and no other entry is affected.
C6_DismissIdempotent ==
    [][\A n \in 1..Len(nodes) :
          dismiss(n) =>
              /\ ~Attached(n) => containers' = containers
              /\ remove(containers', n) = containers'
              /\ \A m \in 1..Len(nodes) :
                    m # n => parentNode(containers', m) = parentNode(containers, m)
      ]_vars

C6_Witness ==
    \E n, m \in 1..Len(nodes) : ~Attached(n) /\ Attached(m)

\* C7 as stated: after a manual dismissal of an entry, no auto-dismiss
\* timer of that entry is pending.
C7_TimerCancelled ==
    [][\A n \in 1..Len(nodes) :
          dismiss(n) /\ Attached(n) => \A t \in timers' : t.node # n]_vars

\* C7 amended: a manual dismissal takes the entry out of its container and
\* leaves its auto-dismiss timer pending; when that timer later runs for the
\* entry already removed, it removes nothing.
C7_TimerLeftPending ==
    [][/\ \A n \in 1..Len(nodes) :
             dismiss(n) => ~Attached(n)' /\ TimersOf(n)' = TimersOf(n)
       /\ \A t \in timers :
             autoDismiss(t) /\ ~Attached(t.node) => containers' = containers
      ]_vars

C7_Witness ==
    \E t \in timers : t.kind = "dismiss" /\ ~Attached(t.node)

C8_NoTimer ==
    \A n \in 1..Len(nodes) : nodes[n].dur <= 0 => TimersOf(n) = {}

C8_OnlyDismissRemoves ==
    \A n \in 1..Len(nodes) :
        nodes[n].dur <= 0 /\ Attached(n) /\ ~Attached(n)' => dismiss(n)

\* C8: an entry shown with duration <= 0 has no auto-dismiss timer, and
\* the only step that takes it out of its container is a dismissal of that
\* entry by a caller: no timer of any entry removes it.
C8_PersistentEntry == []C8_NoTimer /\ [][C8_OnlyDismissRemoves]_vars

C8_Witness ==
    \E n, m \in 1..Len(nodes) :
        /\ nodes[n].dur <= 0 /\ Attached(n) /\ now > nodes[n].created
        /\ nodes[m].dur > 0 /\ ~Attached(m) /\ TimersOf(m) = {}
        /\ nodes[m].mgr = nodes[n].mgr

Ascending(s) == \A i, j \in 1..Len(s) : i < j => s[i] < s[j]

C16_CreationOrder == \A c \in 1..Len(containers) : Ascending(containers[c])

C16_ExpiryOrder ==
    \A t \in timers :
        (NextDue(t) /\ autoDismiss(t) /\ Attached(t.node)) =>
            \A n \in 1..Len(nodes) :
                (n < t.node /\ nodes[n].dur = nodes[t.node].dur) => ~Attached(n)

\* C16: the children of a container are always in creation order, and a
\* timer that removes an entry finds every earlier-created entry of the
\* same positive duration already removed; entries of different durations
\* may leave out of creation order (the witness).
C16_DismissOrder == []C16_CreationOrder /\ [][C16_ExpiryOrder]_vars

C16_Witness ==
    \E n, m \in 1..Len(nodes) :
        /\ n < m
        /\ nodes[n].dur > nodes[m].dur
        /\ nodes[m].dur > 0
        /\ Attached(n) /\ TimersOf(n) # {}
        /\ ~Attached(m) /\ TimersOf(m) = {}

\* ------------------------------------------------------- frame: claims
C19_FailedInit ==
    \A id \in ChartIds \ dom :
        initChart(id, <<>>) =>
            /\ charts' = charts
            /\ listeners' = listeners
            /\ HasKey(charts, id) => HasKey(charts', id)

C19_DeadTimer ==
    \A t \in timers :
        (NextDue(t) /\ autoDismiss(t) /\ ~Attached(t.node)) =>
            /\ containers' = containers
            /\ nodes' = nodes

\* C19: an initChart call that finds no container changes neither the
\* registry nor the window's resize listeners, so a chart registered under
\* that id before stays registered; an auto-dismiss timer that runs for an
\* entry already removed changes nothing in any notification container.
C19_FailureLeavesState == [][C19_FailedInit /\ C19_DeadTimer]_vars

\* A failed initChart for an id that still has its chart registered.
C19_ChartCase ==
    \E id \in ChartIds :
        /\ logged = {id} /\ lastRet = 0 /\ id \notin dom
        /\ HasKey(charts, id) /\ returned[id] # 0

\* A due auto-dismiss timer of an entry that was dismissed by hand.
C19_TimerCase ==
    \E t \in timers :
        /\ t.kind = "dismiss" /\ t.due <= now
        /\ ~Attached(t.node) /\ nodes[t.node].dur > 0

C19_Witness == C19_ChartCase \/ C19_TimerCase

============================================================================
